---- MODULE Spec2Model ----
(***************************************************************************)
(* City-wise report generator (src/app.py): a Flask application that takes *)
(* an uploaded workbook, groups its rows by CONTACTCITY, writes one PDF    *)
(* per city into a shared folder, keeps the grouping in the caller's       *)
(* session, and serves the PDFs one by one or as a ZIP; a ZIP download     *)
(* clears the session and starts a background thread that empties both     *)
(* folders.                                                                *)
(*                                                                         *)
(* Python strings are modelled as sequences of one-character strings, so   *)
(* that strip(), endswith() and the f-string concatenations are computed.  *)
(* Each browser session has at most one request in flight; requests of     *)
(* different sessions and the cleanup threads interleave at the level of   *)
(* file system calls.                                                      *)
(***************************************************************************)
EXTENDS Integers, Sequences, FiniteSets

\* ------------------------------------------------------------------ bounds
MaxRows == 1        \* rows of a workbook uploaded in the web flow
MaxGroupRows == 3   \* rows of a workbook in the grouping-only specification
MaxTime == 0        \* largest value time.time() returns (seconds)
MaxCleanups == 1    \* cleanup threads alive at the same time

Sessions == {1, 2}

\* ----------------------------------------------------------------- strings
SeqMin(a, b) == IF a < b THEN a ELSE b

\* Characters in code point order; Ord gives a character's rank.
Alphabet ==
  <<" ", ".", "0", "1", "2", "3", "4", "5", "6", "7", "8", "9",
    "A", "B", "Q", "_", "a", "c", "d", "e", "f", "l", "n", "o", "p", "s",
    "t", "v", "x">>

Ord(c) == CHOOSE i \in 1..Len(Alphabet) : Alphabet[i] = c

\* Python's str < str: lexicographic by code point, a proper prefix first.
StrLess(a, b) ==
  \E i \in 1..(SeqMin(Len(a), Len(b)) + 1) :
     /\ \A j \in 1..(i - 1) : a[j] = b[j]
     /\ \/ (i = Len(a) + 1 /\ i <= Len(b))
        \/ (i <= Len(a) /\ i <= Len(b) /\ Ord(a[i]) < Ord(b[i]))

\* str.endswith(suffix)
EndsWith(s, suffix) ==
  /\ Len(s) >= Len(suffix)
  /\ SubSeq(s, Len(s) - Len(suffix) + 1, Len(s)) = suffix

IsSpace(c) == c = " "

RECURSIVE LStrip(_)
LStrip(s) == IF s # <<>> /\ IsSpace(Head(s)) THEN LStrip(Tail(s)) ELSE s

RECURSIVE RStrip(_)
RStrip(s) ==
  IF s # <<>> /\ IsSpace(s[Len(s)]) THEN RStrip(SubSeq(s, 1, Len(s) - 1)) ELSE s

\* str.strip()
Strip(s) == RStrip(LStrip(s))

Digit(d) == Alphabet[d + 3]

\* str(int) for a non-negative integer
RECURSIVE IntToStr(_)
IntToStr(n) == IF n < 10 THEN <<Digit(n)>> ELSE IntToStr(n \div 10) \o <<Digit(n % 10)>>

XlsxExt == <<".", "x", "l", "s", "x">>
PdfExt == <<".", "p", "d", "f">>

\* ------------------------------------------------------------- the workbook
\* A cell of the CONTACTCITY column: a city name, or NaN for a blank cell
\* (pandas reads a blank cell as NaN).  NaN is a one-element sequence holding
\* a token that is no character, so it differs from every string.
NaN == <<"NaN">>
CityA == <<"A">>
CityB == <<"B">>
Cities == {CityA, CityB}
CellValues == Cities \cup {NaN}

Headers == <<"CONTACTCITY", "NAME">>

\* The rows of a workbook: row i holds its city cell and, as NAME, its own
\* position in the sheet, which tells the rows apart.
RowsOf(cells) == [i \in 1..Len(cells) |-> [CONTACTCITY |-> cells[i], NAME |-> i]]

\* The sheets of up to n rows whose city cells are drawn from values.
SheetsUpTo(values, n) ==
  UNION {{RowsOf(cells) : cells \in [1..k -> values]} : k \in 0..n}

\* What an uploaded file holds: a workbook with the CONTACTCITY column, a
\* workbook without it, or bytes that are no workbook.
Workbook(rows) == [kind |-> "workbook", headers |-> Headers, rows |-> rows]
NoCityWorkbook == [kind |-> "workbook", headers |-> <<"NAME">>, rows |-> <<>>]
Garbage == [kind |-> "garbage", headers |-> <<>>, rows |-> <<>>]

\* ---------------------------------------------------------------- grouping
Range(f) == {f[i] : i \in DOMAIN f}

Permutations(n) == {p \in [1..n -> 1..n] : \A i, j \in 1..n : p[i] = p[j] => i = j}

\* Order of the sort key: strings ascending, NaN after every string
\* (na_position='last').
KeyLeq(a, b) ==
  IF a = NaN THEN b = NaN
  ELSE IF b = NaN THEN TRUE
  ELSE a = b \/ StrLess(a, b)

\* df.sort_values(by='CONTACTCITY'): pandas sorts with kind='quicksort',
\* which is not stable, so every arrangement of the rows that is ordered by
\* the key is an outcome.
SortValues(rows) ==
  {[i \in 1..Len(rows) |-> rows[p[i]]] : p \in
     {q \in Permutations(Len(rows)) :
        \A i \in 1..(Len(rows) - 1) :
           KeyLeq(rows[q[i]].CONTACTCITY, rows[q[i + 1]].CONTACTCITY)}}

\* The group keys of df.groupby('CONTACTCITY'): dropna=True leaves NaN out.
GroupKeys(rows) == {r.CONTACTCITY : r \in Range(rows)} \ {NaN}

\* sort=True: the keys in ascending order.
RECURSIVE SortKeys(_)
SortKeys(keys) ==
  IF keys = {} THEN <<>>
  ELSE LET m == CHOOSE k \in keys : \A o \in keys : KeyLeq(k, o)
       IN <<m>> \o SortKeys(keys \ {m})

\* The rows of one group, in the order they have in the frame.
RECURSIVE SelectRows(_, _)
SelectRows(rows, key) ==
  IF rows = <<>> THEN <<>>
  ELSE IF Head(rows).CONTACTCITY = key
       THEN <<Head(rows)>> \o SelectRows(Tail(rows), key)
       ELSE SelectRows(Tail(rows), key)

\* for city, group in df.groupby('CONTACTCITY'): the (city, records) pairs in
\* iteration order, which is also the insertion order of city_groups.
GroupBy(rows) ==
  LET ks == SortKeys(GroupKeys(rows))
  IN [i \in 1..Len(ks) |-> [city |-> ks[i], rows |-> SelectRows(rows, ks[i])]]

\* --------------------------------------------------------------- the inputs
FileA == <<"a", ".", "x", "l", "s", "x">>
FileCsv == <<"a", ".", "c", "s", "v">>
NotesTxt == <<"n", "o", "t", "e", "s", ".", "t", "x", "t">>

\* request.files.get('excel'): None when the field is missing.
NoFile == [present |-> FALSE, filename |-> <<>>, content |-> Garbage]
XlsxFile(content) == [present |-> TRUE, filename |-> FileA, content |-> content]
CsvFile == [present |-> TRUE, filename |-> FileCsv, content |-> Workbook(<<>>)]

\* The files a browser submits, the files two browsers submit when they work
\* at the same time, and the files of the grouping-only flow.
Files ==
  {NoFile, CsvFile, XlsxFile(Garbage), XlsxFile(NoCityWorkbook)}
    \cup {XlsxFile(Workbook(rows)) : rows \in SheetsUpTo(CellValues, MaxRows)}
DuoFiles ==
  {XlsxFile(Workbook(rows)) : rows \in SheetsUpTo(Cities, MaxRows) \ {<<>>}}
GroupFiles == {XlsxFile(Workbook(rows)) : rows \in SheetsUpTo(CellValues, MaxGroupRows)}

\* Values of the prefix form field and query argument.
PrefixQ == <<"Q">>
Prefixes == {<<>>, PrefixQ, <<" ", "Q">>, <<" ">>}

\* ------------------------------------------------------------------- state
VARIABLES
  uploadDir,  \* UPLOAD_FOLDER: whether it exists, and the names in it
  pdfDir,     \* PDF_FOLDER: whether it exists, and the names in it
  session,    \* the Flask session of each browser session
  pc,         \* where each session's request in flight stands
  req,        \* the request in flight and its handler's local variables
  resp,       \* the response of a finished request, until the browser has it
  cleaners,   \* the cleanup threads; as history, began holds the sessions
              \* that began an upload while the thread was alive, and seen
              \* those whose upload also ended well by then
  expect,     \* history: each session's latest successful upload since its
              \* start or its last delivered archive, the PDFs it wrote and
              \* the prefix it was sent with
  everZip     \* history: the sessions that were delivered an archive

vars ==
  <<uploadDir, pdfDir, session, pc, req, resp, cleaners,
    expect, everZip>>

NoDir == [exists |-> FALSE, files |-> {}]

\* A session without the keys city_groups and headers.
EmptySession == [has |-> FALSE, city_groups |-> <<>>, headers |-> <<>>]

NoExpect ==
  [has |-> FALSE, city_groups |-> <<>>, headers |-> <<>>, docs |-> {},
   form |-> <<>>]

NoReq ==
  [op |-> "none", file |-> NoFile, form |-> <<>>, prefix |-> <<>>,
   city |-> <<>>, path |-> <<>>, city_groups |-> <<>>, headers |-> <<>>,
   next |-> 0, written |-> {}, listing |-> {}, todo |-> {}, zip |-> {}]

NoResp ==
  [kind |-> "none", to |-> "", flash |-> "", has |-> FALSE,
   city_groups |-> <<>>, headers |-> <<>>, members |-> {}, file |-> <<>>]

\* redirect(url_for(to)) after flash(message)
RedirectResp(to, message) == [NoResp EXCEPT !.kind = "redirect", !.to = to, !.flash = message]
\* render_template('index.html', city_groups=..., headers=...); has is FALSE
\* when city_groups is None.
PageResp(has, groups, headers) ==
  [NoResp EXCEPT !.kind = "page", !.has = has, !.city_groups = groups, !.headers = headers]
\* send_file(memory_file, download_name='city_reports.zip')
ArchiveResp(members) == [NoResp EXCEPT !.kind = "archive", !.members = members]
\* send_file(filepath)
FileResp(name) == [NoResp EXCEPT !.kind = "file", !.file = name]
\* An exception that leaves the handler: Flask answers 500.
FaultResp == [NoResp EXCEPT !.kind = "fault"]

FreeCleaner == [pc |-> "free", folder |-> 0, todo |-> {}, began |-> {}, seen |-> {}]

InitWith(pdf) ==
  /\ uploadDir = NoDir
  /\ pdfDir = pdf
  /\ session = [s \in Sessions |-> EmptySession]
  /\ pc = [s \in Sessions |-> "idle"]
  /\ req = [s \in Sessions |-> NoReq]
  /\ resp = [s \in Sessions |-> NoResp]
  /\ cleaners = [c \in 1..MaxCleanups |-> FreeCleaner]
  /\ expect = [s \in Sessions |-> NoExpect]
  /\ everZip = {}

\* A fresh deployment: neither folder exists.
Init == InitWith(NoDir)

\* A deployment whose documents folder already exists and may hold a file
\* that is not a PDF.
InitForeign ==
  \E fs \in SUBSET {NotesTxt} : InitWith([exists |-> TRUE, files |-> fs])

History == <<expect, everZip>>

\* What is left of a request when its handler has returned: the request
\* itself and, of the handler's local variables, the directory listing.
Sent(r) ==
  [NoReq EXCEPT !.op = r.op, !.file = r.file, !.form = r.form, !.city = r.city,
                !.listing = r.listing]

\* The handler of request r of session s ends with response a.
Finish(s, r, a) ==
  /\ pc' = [pc EXCEPT ![s] = "done"]
  /\ resp' = [resp EXCEPT ![s] = a]
  /\ req' = [req EXCEPT ![s] = Sent(r)]

\* The handler of the request in flight of session s ends with response a.
Respond(s, a) == Finish(s, req[s], a)

Goto(s, label) ==
  /\ pc' = [pc EXCEPT ![s] = label]
  /\ UNCHANGED resp

\* ------------------------------------------------------------------ upload
\* The test without the extension: any file that was sent passes.
ValidUploadAnyName(file) == file.present /\ file.filename # <<>>

\* if file and file.filename.endswith('.xlsx')
ValidUpload(file) ==
  file.present /\ file.filename # <<>> /\ EndsWith(file.filename, XlsxExt)

\* os.makedirs(folder, exist_ok=True)
MakeDirs(dir) == [dir EXCEPT !.exists = TRUE]

\* f"{int(time.time())}_{file.filename}"; t is what time.time() returns, the
\* wall clock, which is any value.
UniqueFilename(t, filename) == IntToStr(t) \o <<"_">> \o filename

\* f"{prefix} {city}.pdf" if prefix else f"{city}.pdf"
PdfFilename(prefix, city) ==
  IF prefix # <<>> THEN prefix \o <<" ">> \o city \o PdfExt ELSE city \o PdfExt

\* A conversion that leaves no file behind.
WritePdfNowhere(dir, name) == dir

\* pdfkit.from_string(html, pdf_path): the file is created or overwritten.
WritePdf(dir, name) == [dir EXCEPT !.files = @ \cup {name}]

\* session['city_groups'] = city_groups; session['headers'] = headers
SessionSave(sess, groups, headers) ==
  [has |-> TRUE, city_groups |-> groups, headers |-> headers]

\* The else branch: no file, or a name that does not end in .xlsx.
UploadInvalid(s, files, prefixes) ==
  \E file \in files, form \in prefixes :
    /\ pc[s] = "idle"
    /\ ~ValidUpload(file)
    /\ Finish(s, [NoReq EXCEPT !.op = "upload", !.file = file, !.form = form],
              RedirectResp("index", "Please upload a valid .xlsx file"))
    /\ UNCHANGED <<uploadDir, pdfDir, session, cleaners, History>>

\* Lines 55-61: the file is accepted and both folders are made.
UploadBegin(s, files, prefixes) ==
  \E file \in files, form \in prefixes :
    /\ pc[s] = "idle"
    /\ ValidUpload(file)
    /\ req' = [req EXCEPT ![s] = [NoReq EXCEPT !.op = "upload", !.file = file,
                                               !.form = form, !.prefix = Strip(form)]]
    /\ uploadDir' = MakeDirs(uploadDir)
    /\ pdfDir' = MakeDirs(pdfDir)
    /\ Goto(s, "u_save")
    /\ cleaners' = [c \in 1..MaxCleanups |->
                      IF cleaners[c].pc # "free"
                      THEN [cleaners[c] EXCEPT !.began = @ \cup {s}, !.seen = @ \ {s}]
                      ELSE cleaners[c]]
    /\ UNCHANGED <<session, History>>

\* Lines 64-66: file.save(path); it raises when the folder is gone again.
UploadSave(s) ==
  /\ pc[s] = "u_save"
  /\ \E t \in 0..MaxTime :
       LET name == UniqueFilename(t, req[s].file.filename)
       IN IF uploadDir.exists
          THEN /\ uploadDir' = [uploadDir EXCEPT !.files = @ \cup {name}]
               /\ req' = [req EXCEPT ![s].path = name]
               /\ Goto(s, "u_read")
          ELSE /\ Respond(s, FaultResp)
               /\ UNCHANGED uploadDir
  /\ UNCHANGED <<pdfDir, session, cleaners, History>>

\* Lines 69-77: read_excel, sort_values, groupby.  read_excel raises when the
\* saved file is gone or is no workbook, sort_values when the sheet has no
\* CONTACTCITY column.
UploadRead(s) ==
  /\ pc[s] = "u_read"
  /\ LET content == req[s].file.content
         readable == /\ uploadDir.exists
                     /\ req[s].path \in uploadDir.files
                     /\ content.kind = "workbook"
                     /\ "CONTACTCITY" \in Range(content.headers)
     IN IF readable
        THEN \E df \in SortValues(content.rows) :
               /\ req' = [req EXCEPT ![s].city_groups = GroupBy(df),
                                     ![s].headers = content.headers,
                                     ![s].next = 1]
               /\ Goto(s, "u_render")
        ELSE Respond(s, FaultResp)
  /\ UNCHANGED <<uploadDir, pdfDir, session, cleaners, History>>

\* Lines 86-92, one turn of the loop: the PDF of the next group is written;
\* pdfkit raises when it cannot write into the folder.
UploadRender(s) ==
  /\ pc[s] = "u_render"
  /\ req[s].next <= Len(req[s].city_groups)
  /\ LET name == PdfFilename(req[s].prefix, req[s].city_groups[req[s].next].city)
     IN IF pdfDir.exists
        THEN /\ pdfDir' = WritePdf(pdfDir, name)
             /\ req' = [req EXCEPT ![s].next = @ + 1, ![s].written = @ \cup {name}]
             /\ Goto(s, "u_render")
        ELSE /\ Respond(s, FaultResp)
             /\ UNCHANGED pdfDir
  /\ UNCHANGED <<uploadDir, session, cleaners, History>>

\* Line 91 when the converter is missing or fails: pdfkit raises.
UploadRenderFail(s) ==
  /\ pc[s] = "u_render"
  /\ req[s].next <= Len(req[s].city_groups)
  /\ Respond(s, FaultResp)
  /\ UNCHANGED <<uploadDir, pdfDir, session, cleaners, History>>

\* Lines 94-97: the grouping goes into the session.
UploadFinish(s) ==
  /\ pc[s] = "u_render"
  /\ req[s].next > Len(req[s].city_groups)
  /\ session' = [session EXCEPT ![s] = SessionSave(@, req[s].city_groups, req[s].headers)]
  /\ Respond(s, RedirectResp("display_data", "PDFs generated successfully!"))
  /\ expect' = [expect EXCEPT ![s] =
                  [has |-> TRUE, city_groups |-> req[s].city_groups,
                   headers |-> req[s].headers, docs |-> req[s].written,
                   form |-> req[s].form]]
  /\ cleaners' = [c \in 1..MaxCleanups |->
                    IF s \in cleaners[c].began
                    THEN [cleaners[c] EXCEPT !.seen = @ \cup {s}]
                    ELSE cleaners[c]]
  /\ UNCHANGED <<uploadDir, pdfDir, everZip>>

\* ------------------------------------------------------- index and display
\* GET /: the page without data.
Index(s) ==
  /\ pc[s] = "idle"
  /\ Finish(s, [NoReq EXCEPT !.op = "index"], PageResp(FALSE, <<>>, <<>>))
  /\ UNCHANGED <<uploadDir, pdfDir, session, cleaners, History>>

\* GET /display: session.get('city_groups', None), session.get('headers', [])
DisplayData(s) ==
  /\ pc[s] = "idle"
  /\ Finish(s, [NoReq EXCEPT !.op = "display"],
            PageResp(session[s].has, session[s].city_groups, session[s].headers))
  /\ UNCHANGED <<uploadDir, pdfDir, session, cleaners, History>>

\* ------------------------------------------------------------ download_zip
\* The loop without the test of the extension.
IsAnyName(name) == TRUE

\* filename.endswith('.pdf')
IsDocument(name) == EndsWith(name, PdfExt)

\* A download that leaves the session as it is.
SessionKept(sess) == sess

\* session.clear()
SessionClear(sess) == EmptySession

\* Line 115: not os.path.exists(PDF_FOLDER) or not os.listdir(PDF_FOLDER)
NothingToArchive(dir) == ~dir.exists \/ dir.files = {}

\* Lines 115-117.
ZipCheck(s) ==
  /\ pc[s] = "idle"
  /\ IF NothingToArchive(pdfDir)
     THEN Finish(s, [NoReq EXCEPT !.op = "download_zip"],
                 RedirectResp("index", "No PDFs generated yet."))
     ELSE /\ req' = [req EXCEPT ![s] = [NoReq EXCEPT !.op = "download_zip"]]
          /\ Goto(s, "z_list")
  /\ UNCHANGED <<uploadDir, pdfDir, session, cleaners, History>>

\* Line 121: os.listdir(PDF_FOLDER); it raises when the folder is gone.
ZipList(s) ==
  /\ pc[s] = "z_list"
  /\ IF pdfDir.exists
     THEN /\ req' = [req EXCEPT ![s].listing = pdfDir.files, ![s].todo = pdfDir.files]
          /\ Goto(s, "z_write")
     ELSE Respond(s, FaultResp)
  /\ UNCHANGED <<uploadDir, pdfDir, session, cleaners, History>>

\* Lines 122-125, one turn of the loop, in listing order (any order): a
\* listed name with the extension is written into the ZIP under that name;
\* zf.write raises when the file is gone.
ZipWrite(s) ==
  /\ pc[s] = "z_write"
  /\ \E name \in req[s].todo :
       IF ~IsDocument(name)
       THEN /\ req' = [req EXCEPT ![s].todo = @ \ {name}]
            /\ Goto(s, "z_write")
       ELSE IF pdfDir.exists /\ name \in pdfDir.files
       THEN /\ req' = [req EXCEPT ![s].todo = @ \ {name}, ![s].zip = @ \cup {name}]
            /\ Goto(s, "z_write")
       ELSE Respond(s, FaultResp)
  /\ UNCHANGED <<uploadDir, pdfDir, session, cleaners, History>>

\* Lines 127-141: the session is cleared, the cleanup thread is started and
\* the ZIP is sent.  At most MaxCleanups threads are alive: the step waits for
\* a free one.
ZipFinish(s) ==
  /\ pc[s] = "z_write"
  /\ req[s].todo = {}
  /\ \E c \in 1..MaxCleanups :
       /\ cleaners[c].pc = "free"
       /\ cleaners' = [cleaners EXCEPT ![c] = [FreeCleaner EXCEPT !.pc = "sleep",
                                                                  !.folder = 1]]
  /\ session' = [session EXCEPT ![s] = SessionClear(@)]
  /\ Respond(s, ArchiveResp(req[s].zip))
  /\ expect' = [expect EXCEPT ![s] = NoExpect]
  /\ everZip' = everZip \cup {s}
  /\ UNCHANGED <<uploadDir, pdfDir>>

\* ------------------------------------------------------- download_city_pdf
\* Line 147-148: the prefix is taken from the query as it is.
CityFilename(prefix, city) ==
  IF prefix # <<>> THEN prefix \o <<" ">> \o city \o PdfExt ELSE city \o PdfExt

\* Lines 146-152.
CityCheck(s, prefixes) ==
  \E city \in Cities, prefix \in prefixes :
    /\ pc[s] = "idle"
    /\ LET name == CityFilename(prefix, city)
           request == [NoReq EXCEPT !.op = "download_city", !.form = prefix,
                                    !.prefix = prefix, !.city = city, !.path = name]
       IN IF pdfDir.exists /\ name \in pdfDir.files
          THEN /\ req' = [req EXCEPT ![s] = request]
               /\ Goto(s, "c_send")
          ELSE Finish(s, request, RedirectResp("index", "File not found"))
    /\ UNCHANGED <<uploadDir, pdfDir, session, cleaners, History>>

\* Line 153: send_file opens the file; it raises when the file is gone.
CitySend(s) ==
  /\ pc[s] = "c_send"
  /\ IF pdfDir.exists /\ req[s].path \in pdfDir.files
     THEN Respond(s, FileResp(req[s].path))
     ELSE Respond(s, FaultResp)
  /\ UNCHANGED <<uploadDir, pdfDir, session, cleaners, History>>

\* The browser has the response; the session can send its next request.
Receive(s) ==
  /\ pc[s] = "done"
  /\ pc' = [pc EXCEPT ![s] = "idle"]
  /\ resp' = [resp EXCEPT ![s] = NoResp]
  /\ req' = [req EXCEPT ![s] = NoReq]
  /\ UNCHANGED <<uploadDir, pdfDir, session, cleaners, History>>

\* --------------------------------------------------------- cleanup_folders
\* [UPLOAD_FOLDER, PDF_FOLDER]
FolderOf(i) == IF i = 1 THEN uploadDir ELSE pdfDir

SetFolder(i, dir) ==
  IF i = 1 THEN uploadDir' = dir /\ UNCHANGED pdfDir
  ELSE pdfDir' = dir /\ UNCHANGED uploadDir

\* The thread goes on to the next folder, or ends after the last one.
NextFolder(c) ==
  IF cleaners[c].folder = 1
  THEN cleaners' = [cleaners EXCEPT ![c].pc = "scan", ![c].folder = 2, ![c].todo = {}]
  ELSE cleaners' = [cleaners EXCEPT ![c] = FreeCleaner]

\* Line 25: time.sleep(5) is over.
CleanWake(c) ==
  /\ cleaners[c].pc = "sleep"
  /\ cleaners' = [cleaners EXCEPT ![c].pc = "scan"]
  /\ UNCHANGED <<uploadDir, pdfDir, session, pc, req, resp, History>>

\* Lines 28-29: a folder that does not exist is passed over, else it is listed.
CleanScan(c) ==
  /\ cleaners[c].pc = "scan"
  /\ IF FolderOf(cleaners[c].folder).exists
     THEN cleaners' = [cleaners EXCEPT ![c].pc = "delete",
                                       ![c].todo = FolderOf(cleaners[c].folder).files]
     ELSE NextFolder(c)
  /\ UNCHANGED <<uploadDir, pdfDir, session, pc, req, resp, History>>

\* os.unlink(file_path); a file that is gone already is passed over.
Unlink(dir, name) == [dir EXCEPT !.files = @ \ {name}]

\* Lines 30-39, one turn of the loop: a listed file is deleted.
CleanDelete(c) ==
  /\ cleaners[c].pc = "delete"
  /\ \E name \in cleaners[c].todo :
       /\ SetFolder(cleaners[c].folder, Unlink(FolderOf(cleaners[c].folder), name))
       /\ cleaners' = [cleaners EXCEPT ![c].todo = @ \ {name}]
  /\ UNCHANGED <<session, pc, req, resp, History>>

\* Line 40, first half: shutil.rmtree(folder) deletes what the folder holds
\* by now; it raises, and the folder is passed over, when the folder is gone.
CleanRmtree(c) ==
  /\ cleaners[c].pc = "delete"
  /\ cleaners[c].todo = {}
  /\ IF FolderOf(cleaners[c].folder).exists
     THEN /\ SetFolder(cleaners[c].folder, [FolderOf(cleaners[c].folder) EXCEPT !.files = {}])
          /\ cleaners' = [cleaners EXCEPT ![c].pc = "rmdir"]
     ELSE /\ NextFolder(c)
          /\ UNCHANGED <<uploadDir, pdfDir>>
  /\ UNCHANGED <<session, pc, req, resp, History>>

\* Line 40, second half: rmtree removes the folder itself; it raises, and the
\* folder stays, when a file was written into it in between.
CleanRmdir(c) ==
  /\ cleaners[c].pc = "rmdir"
  /\ IF FolderOf(cleaners[c].folder).files = {}
     THEN SetFolder(cleaners[c].folder, NoDir)
     ELSE UNCHANGED <<uploadDir, pdfDir>>
  /\ NextFolder(c)
  /\ UNCHANGED <<session, pc, req, resp, History>>

\* ---------------------------------------------------------- specifications
\* The requests of the browsers in S, which submit the given files and
\* prefixes.
Requests(S, files, prefixes) ==
  \E s \in S :
    \/ Index(s)
    \/ DisplayData(s)
    \/ UploadInvalid(s, files, prefixes)
    \/ UploadBegin(s, files, prefixes)
    \/ UploadSave(s)
    \/ UploadRead(s)
    \/ UploadRender(s)
    \/ UploadRenderFail(s)
    \/ UploadFinish(s)
    \/ ZipCheck(s)
    \/ ZipList(s)
    \/ ZipWrite(s)
    \/ ZipFinish(s)
    \/ CityCheck(s, prefixes)
    \/ CitySend(s)
    \/ Receive(s)

\* The steps of the cleanup threads.
Cleaning ==
  \E c \in 1..MaxCleanups :
    \/ CleanWake(c)
    \/ CleanScan(c)
    \/ CleanDelete(c)
    \/ CleanRmtree(c)
    \/ CleanRmdir(c)

\* One browser, with every kind of file and prefix, and the cleanup threads
\* its downloads start, on a fresh deployment.
Next == Requests({1}, Files, Prefixes) \/ Cleaning

Spec == Init /\ [][Next]_vars

\* The same on a deployment whose documents folder may hold a file that is
\* not a PDF.
SpecForeign == InitForeign /\ [][Next]_vars

\* Two browsers at the same time, with the handlers that write the session or
\* the folders: each uploads workbooks without a prefix, looks at its data
\* and downloads the archive.
NextDuo ==
  \/ \E s \in Sessions :
       \/ DisplayData(s)
       \/ UploadBegin(s, DuoFiles, {<<>>})
       \/ UploadSave(s)
       \/ UploadRead(s)
       \/ UploadRender(s)
       \/ UploadRenderFail(s)
       \/ UploadFinish(s)
       \/ ZipCheck(s)
       \/ ZipList(s)
       \/ ZipWrite(s)
       \/ ZipFinish(s)
       \/ Receive(s)
  \/ Cleaning

SpecDuo == Init /\ [][NextDuo]_vars

\* One browser that uploads workbooks of up to MaxGroupRows rows and looks at
\* the grouping: the specification of the grouping.
NextGroup ==
  \/ UploadBegin(1, GroupFiles, {<<>>})
  \/ UploadSave(1)
  \/ UploadRead(1)
  \/ UploadRender(1)
  \/ UploadRenderFail(1)
  \/ UploadFinish(1)
  \/ DisplayData(1)
  \/ Receive(1)

SpecGroup == Init /\ [][NextGroup]_vars

\* ------------------------------------------------------------------ claims
\* The upload of session s has ended with the redirect to the display page.
UploadDone(s) ==
  /\ pc[s] = "done"
  /\ req[s].op = "upload"
  /\ resp[s].kind = "redirect"
  /\ resp[s].to = "display_data"

\* The archive has been sent to session s.
ArchiveDone(s) == pc[s] = "done" /\ resp[s].kind = "archive"

RECURSIVE RowCount(_)
RowCount(groups) ==
  IF groups = <<>> THEN 0 ELSE Len(Head(groups).rows) + RowCount(Tail(groups))

\* The places (group, position) at which row r stands in the groups.
PlacesOf(groups, r) ==
  {gj \in UNION {{<<g, j>> : j \in DOMAIN groups[g].rows} : g \in DOMAIN groups} :
     groups[gj[1]].rows[gj[2]] = r}

\* C1: after an upload, every row of the workbook stands in exactly one city
\* group, the row counts of the groups sum to the row count of the workbook,
\* and the rows with a blank CONTACTCITY stand in a group keyed by the empty
\* string.
C1_EveryRowInOneGroup ==
  \A s \in Sessions :
    UploadDone(s) =>
      LET rows == req[s].file.content.rows
          groups == session[s].city_groups
      IN /\ RowCount(groups) = Len(rows)
         /\ \A i \in DOMAIN rows : Cardinality(PlacesOf(groups, rows[i])) = 1
         /\ \A i \in DOMAIN rows :
              rows[i].CONTACTCITY = NaN =>
                \E g \in DOMAIN groups :
                  groups[g].city = <<>> /\ rows[i] \in Range(groups[g].rows)

\* C2: after an upload, the groups stand in strictly ascending key order, one
\* group for each city of the workbook, and the rows of each group stand in
\* the order they have in the workbook (NAME is the row's position there).
C2_GroupsAscendingAndStable ==
  \A s \in Sessions :
    UploadDone(s) =>
      LET rows == req[s].file.content.rows
          groups == session[s].city_groups
      IN /\ \A g \in 1..(Len(groups) - 1) : StrLess(groups[g].city, groups[g + 1].city)
         /\ {groups[g].city : g \in DOMAIN groups}
              = {rows[i].CONTACTCITY : i \in DOMAIN rows} \ {NaN}
         /\ \A g \in DOMAIN groups :
              \A i, j \in DOMAIN groups[g].rows :
                i < j => groups[g].rows[i].NAME < groups[g].rows[j].NAME

\* C3: download_zip never delivers an archive without members: when the
\* documents folder holds no PDF it answers with the notice and the redirect.
C3_NoEmptyArchive ==
  \A s \in Sessions : ArchiveDone(s) => resp[s].members # {}

\* C4: the members of a delivered archive are exactly the names of the listing
\* of the documents folder that end in .pdf, each under its bare name.
C4_ArchiveIsListedDocuments ==
  \A s \in Sessions :
    ArchiveDone(s) =>
      resp[s].members = {name \in req[s].listing : EndsWith(name, PdfExt)}

\* An archive was delivered from a folder that held a PDF and notes.txt.
C4_Witness ==
  \E s \in Sessions :
    /\ ArchiveDone(s)
    /\ NotesTxt \in req[s].listing
    /\ resp[s].members # {}

\* The file of an upload is missing or its name does not end in .xlsx.
NotXlsx(file) == ~file.present \/ ~EndsWith(file.filename, XlsxExt)

\* C5: no step of an upload whose file is missing or not named .xlsx changes
\* the two folders (their entries, or whether they exist) or the session.
C5_InvalidUploadChangesNothing ==
  [][\A s \in Sessions :
       (req'[s].op = "upload" /\ NotXlsx(req'[s].file) /\ pc'[s] # pc[s])
         => (uploadDir' = uploadDir /\ pdfDir' = pdfDir /\ session' = session)]_vars

\* A .csv upload was turned down while the folders held files and the session
\* held data.
C5_Witness ==
  \E s \in Sessions :
    /\ pc[s] = "done"
    /\ req[s].op = "upload"
    /\ req[s].file.present
    /\ NotXlsx(req[s].file)
    /\ resp[s].kind = "redirect"
    /\ resp[s].to = "index"
    /\ uploadDir.files # {}
    /\ pdfDir.files # {}
    /\ session[s].has

\* The file of an upload is named .xlsx and is no workbook.
MalformedXlsx(file) ==
  file.present /\ EndsWith(file.filename, XlsxExt) /\ file.content.kind = "garbage"

\* C6: no step of an upload of a malformed .xlsx file adds an entry to a
\* folder or changes the session, and the upload ends with a notice and a
\* redirect.
C6_MalformedUploadCommitsNothing ==
  [][\A s \in Sessions :
       (req'[s].op = "upload" /\ MalformedXlsx(req'[s].file) /\ pc'[s] # pc[s])
         => /\ uploadDir'.files \subseteq uploadDir.files
            /\ pdfDir'.files \subseteq pdfDir.files
            /\ session' = session
            /\ pc'[s] = "done" => (resp'[s].kind = "redirect" /\ resp'[s].flash # "")]_vars

\* C7: the display page of a session shows, without error, the headers and
\* groups of the session's latest successful upload, and no data when the
\* session has had no successful upload since its start or since the last
\* archive delivered to it; it never shows another session's data.
C7_DisplayShowsOwnLatestUpload ==
  \A s \in Sessions :
    (pc[s] = "done" /\ req[s].op = "display") =>
      /\ resp[s].kind = "page"
      /\ resp[s].has = expect[s].has
      /\ resp[s].city_groups = expect[s].city_groups
      /\ resp[s].headers = expect[s].headers

\* A session that was delivered its archive sees no data while the other
\* session holds the data of its own upload.
C7_Witness ==
  \E s, o \in Sessions :
    /\ s # o
    /\ pc[s] = "done"
    /\ req[s].op = "display"
    /\ ~resp[s].has
    /\ s \in everZip
    /\ session[o].has
    /\ session[o].city_groups # <<>>

\* C8: a session that holds the data of a successful upload misses one of the
\* PDFs of that upload only after an archive was delivered, that is, after a
\* cleanup was started; C8_Witness is the state of the race the cleanup of
\* one download runs with a later upload.
C8_DocumentsGoOnlyByCleanup ==
  \A s \in Sessions :
    (session[s].has /\ expect[s].has /\ ~(expect[s].docs \subseteq pdfDir.files))
      => everZip # {}

\* The upload of session s began and ended while the cleanup started by the
\* other session's download was alive, and that cleanup has deleted the
\* spreadsheet and the PDFs of the upload; session s holds its data and was
\* never delivered an archive.
C8_Witness ==
  \E s \in Sessions, c \in 1..MaxCleanups :
    /\ pc[s] = "idle"
    /\ session[s].has
    /\ session[s].city_groups # <<>>
    /\ expect[s].docs # {}
    /\ s \notin everZip
    /\ s \in cleaners[c].seen
    /\ ~uploadDir.exists
    /\ expect[s].docs \cap pdfDir.files = {}

\* C9: the members of an archive delivered to a session that holds the data
\* of its latest successful upload, which wrote PDFs, are PDFs written by that
\* upload: none is left over from an earlier upload.
C9_ArchiveOnlyLatestUpload ==
  [][\A s \in Sessions :
       ( /\ pc[s] = "z_write" /\ pc'[s] = "done" /\ resp'[s].kind = "archive"
         /\ expect[s].has /\ expect[s].docs # {} )
         => resp'[s].members \subseteq expect[s].docs]_vars

\* C10: after a successful upload sent with prefix p that made a group for
\* city c, and before any cleanup was started, the download of city c with
\* prefix p streams the PDF of that upload.
C10_DownloadFindsUploadedDocument ==
  \A s \in Sessions :
    ( /\ pc[s] = "done"
      /\ req[s].op = "download_city"
      /\ expect[s].has
      /\ req[s].form = expect[s].form
      /\ \E g \in DOMAIN expect[s].city_groups : expect[s].city_groups[g].city = req[s].city
      /\ everZip = {} )
    => (resp[s].kind = "file" /\ resp[s].file \in expect[s].docs)

====
